---- MODULE Spec2Model ----
(***************************************************************************)
(* Model of access_control.py: the request parser, the resource registry,  *)
(* the manifest editor (.access_control.yml) and the orchestration of a    *)
(* run (check, process, cleanup).                                          *)
(*                                                                         *)
(* Text (file names, file bodies, feedstock names) is a sequence of        *)
(* one-character strings, so that str.strip and readlines are computed     *)
(* character by character.  Resource names and action names are atoms.     *)
(***************************************************************************)
EXTENDS Integers, Sequences, FiniteSets, TLC

VARIABLES
    \* ---- a full or check-only run (Spec) ----
    mode,        \* "check" (argv holds "check") or "main"
    pc,          \* position of the run
    path,        \* the request directory being handled
    files,       \* directory -> its listing: sequence of [name, content]
    files0,      \* the listings when the run started
    manifest,    \* content['access_control'] of .access_control.yml on disk
    manifest0,   \* the manifest when the run started
    head,        \* the manifest in the last commit of the working tree
    dumped,      \* whether the manifest file was written since that commit
    mapping,     \* the dict built by _get_filename_feedstock_mapping
    fi,          \* index of the current item of mapping
    ei,          \* index of the current feedstock of that item
    log,         \* external effects so far, in order
    failure,     \* what stopped the run ("none" while it has not stopped)
    \* ---- direct calls of update_access_yaml (ManifestSpec) ----
    call,        \* arguments of the last call
    before,      \* the manifest on disk before the last call
    raised,      \* whether the last call raised ValueError
    \* ---- parse_an_input_file on its own (ParseSpec) ----
    pName,       \* last part of the file path
    pContent,    \* body of the file
    pResult      \* what the parser returned (NotParsed before the call)

runVars ==
    <<mode, pc, path, files, files0, manifest0, head, dumped, mapping, fi, ei, log,
      failure>>
callVars == <<call, before, raised>>
parseVars == <<pName, pContent, pResult>>
vars == <<runVars, manifest, callVars, parseVars>>

(***************************************************************************)
(* Bounds                                                                  *)
(***************************************************************************)
MaxListLen == 2        \* entries per resource in a manifest (ManifestSpec)
MaxRequestFiles == 2   \* request files over both directories (Spec)
MaxStemLen == 2        \* characters before the extension (ParseSpec)
MaxContentLen == 3     \* characters of a file body (ParseSpec)

(***************************************************************************)
(* Text                                                                    *)
(***************************************************************************)
Whitespace == {" ", "\t", "\n", "\r"}

DotTxt == <<".", "t", "x", "t">>

Suffix == <<"-", "f", "e", "e", "d", "s", "t", "o", "c", "k">>

ExampleTxt == <<"e", "x", "a", "m", "p", "l", "e">> \o DotTxt

CirunGpuRunner ==
    <<"c", "i", "r", "u", "n", "-", "g", "p", "u", "-", "r", "u", "n", "n", "e", "r">>

CirunGpuRunnerPr == CirunGpuRunner \o <<"-", "p", "r">>

RECURSIVE lstrip(_, _)
lstrip(s, chars) ==
    IF s # <<>> /\ Head(s) \in chars THEN lstrip(Tail(s), chars) ELSE s

RECURSIVE rstrip(_, _)
rstrip(s, chars) ==
    IF s # <<>> /\ s[Len(s)] \in chars
    THEN rstrip(SubSeq(s, 1, Len(s) - 1), chars)
    ELSE s

\* str.strip(chars): drops from both ends every character that is in chars
strip(s, chars) == rstrip(lstrip(s, chars), chars)

Range(s) == {s[i] : i \in DOMAIN s}

\* f.readlines(): the body cut after each newline, newlines kept
RECURSIVE readlines(_)
readlines(s) ==
    IF s = <<>> THEN <<>>
    ELSE IF "\n" \notin Range(s) THEN <<s>>
    ELSE LET i == CHOOSE k \in DOMAIN s :
                      s[k] = "\n" /\ \A j \in 1..(k - 1) : s[j] # "\n"
         IN <<SubSeq(s, 1, i)>> \o readlines(SubSeq(s, i + 1, Len(s)))

(***************************************************************************)
(* Request parser                                                          *)
(***************************************************************************)
\* file_path.parts[-1].strip(".txt")
file_name_of(name) == strip(name, Range(DotTxt))

\* [feedstock.strip() for feedstock in feedstocks]
strip_lines(lines) == [i \in DOMAIN lines |-> strip(lines[i], Whitespace)]

parse_an_input_file(name, content) ==
    [file_name |-> file_name_of(name), feedstocks |-> strip_lines(readlines(content))]

\* all entries of the directory but example.txt, in listing order
get_access_control_files(listing) ==
    SelectSeq(listing, LAMBDA f : f.name # ExampleTxt)

\* file_name_feedstock_mapping[file_name] = feedstocks: a dict keeps the place
\* of a key that is assigned again and takes the new value
dict_set(d, k, v) ==
    IF \E i \in DOMAIN d : d[i].key = k
    THEN [i \in DOMAIN d |-> IF d[i].key = k THEN [key |-> k, value |-> v] ELSE d[i]]
    ELSE Append(d, [key |-> k, value |-> v])

RECURSIVE dict_of_files(_, _)
dict_of_files(d, fs) ==
    IF fs = <<>> THEN d
    ELSE LET p == parse_an_input_file(Head(fs).name, Head(fs).content)
         IN dict_of_files(dict_set(d, p.file_name, p.feedstocks), Tail(fs))

get_filename_feedstock_mapping(listing) ==
    dict_of_files(<<>>, get_access_control_files(listing))

(***************************************************************************)
(* Resource registry                                                       *)
(***************************************************************************)
\* a missing "policy_args" (None in the code) is the empty list: both are
\* falsy in `if policy_args:`
CIRUN_FILENAME_RESOURCE_MAPPING ==
    (CirunGpuRunner :> [resource |-> "cirun-gpu-runner", policy_args |-> <<>>])
    @@ (CirunGpuRunnerPr :>
            [resource |-> "cirun-gpu-runner", policy_args |-> <<"pull_request">>])

(***************************************************************************)
(* Manifest editor                                                         *)
(***************************************************************************)
\* if resource not in content['access_control']: ...[resource] = []
EnsureResource(content, resource) ==
    IF resource \notin DOMAIN content THEN content @@ (resource :> <<>>) ELSE content

\* a lookup that never finds the feedstock
HasFeedstock_never(entries, feedstock_name) == FALSE

\* any(entry["feedstock"] == feedstock_name for entry in ...)
HasFeedstock(entries, feedstock_name) ==
    \E i \in DOMAIN entries : entries[i].feedstock = feedstock_name

\* the new entry put first instead of last
AppendEntry_first(entries, feedstock_name) ==
    <<[feedstock |-> feedstock_name]>> \o entries

\* entry = {"feedstock": feedstock_name}; ...[resource].append(entry)
AppendEntry(entries, feedstock_name) ==
    Append(entries, [feedstock |-> feedstock_name])

\* list.remove-like: only the first matching entry goes
RECURSIVE FilterOut_first(_, _)
FilterOut_first(entries, feedstock_name) ==
    IF entries = <<>> THEN <<>>
    ELSE IF Head(entries).feedstock = feedstock_name THEN Tail(entries)
    ELSE <<Head(entries)>> \o FilterOut_first(Tail(entries), feedstock_name)

\* [entry for entry in ... if entry["feedstock"] != feedstock_name]
FilterOut(entries, feedstock_name) ==
    SelectSeq(entries, LAMBDA entry : entry.feedstock # feedstock_name)

\* the action checked only after the document was written back
InvalidAction_after_dump(file, content) ==
    [file |-> content, raised |-> TRUE, dumped |-> TRUE]

\* raise ValueError(...): the dump below it is not reached
InvalidAction(file, content) == [file |-> file, raised |-> TRUE, dumped |-> FALSE]

\* file: the manifest on disk.  The result is the manifest on disk after the
\* call, whether the call raised, and whether it reached yaml.dump.  A
\* `return` before the dump leaves the file as it was, whatever was done to
\* the loaded content.
update_access_yaml(file, resource, feedstock_name, action) ==
    LET content == EnsureResource(file, resource)
    IN  IF action = "add"
        THEN IF HasFeedstock(content[resource], feedstock_name)
             THEN [file |-> file, raised |-> FALSE, dumped |-> FALSE]
             ELSE [file |-> [content EXCEPT
                                ![resource] = AppendEntry(@, feedstock_name)],
                   raised |-> FALSE, dumped |-> TRUE]
        ELSE IF action = "remove"
        THEN IF content[resource] = <<>>
             THEN [file |-> file, raised |-> FALSE, dumped |-> FALSE]
             ELSE [file |-> [content EXCEPT
                                ![resource] = FilterOut(@, feedstock_name)],
                   raised |-> FALSE, dumped |-> TRUE]
        ELSE InvalidAction(file, content)

(***************************************************************************)
(* Values the variables of the other specifications rest at                *)
(***************************************************************************)
NoCall == [resource |-> "none", feedstock_name |-> <<>>, action |-> "none"]

NotParsed == [file_name |-> <<>>, feedstocks |-> <<>>, parsed |-> FALSE]

RunIdle ==
    /\ mode = "main" /\ pc = "idle" /\ path = "grant_access"
    /\ files = <<>> /\ files0 = <<>> /\ manifest0 = <<>>
    /\ head = <<>> /\ dumped = FALSE
    /\ mapping = <<>> /\ fi = 0 /\ ei = 0 /\ log = <<>> /\ failure = "none"

CallIdle == call = NoCall /\ before = <<>> /\ raised = FALSE

ParseIdle == pName = <<>> /\ pContent = <<>> /\ pResult = NotParsed

StringsUpTo(alphabet, n) == UNION {[1..k -> alphabet] : k \in 0..n}

(***************************************************************************)
(* ParseSpec: parse_an_input_file applied to one file                      *)
(***************************************************************************)
StemAlphabet == {"a", "t", "x", "."}

ContentAlphabet == {"a", " ", "\n"}

ParseNames ==
    {stem \o ext : stem \in StringsUpTo(StemAlphabet, MaxStemLen), ext \in {DotTxt, <<>>}}
    \cup {CirunGpuRunner \o DotTxt, CirunGpuRunnerPr \o DotTxt}

ParseContents == StringsUpTo(ContentAlphabet, MaxContentLen)

ParseInit ==
    /\ pName \in ParseNames
    /\ pContent \in ParseContents
    /\ pResult = NotParsed
    /\ RunIdle /\ CallIdle /\ manifest = <<>>

ParseAnInputFile ==
    /\ pResult = NotParsed
    /\ pResult' = parse_an_input_file(pName, pContent) @@ [parsed |-> TRUE]
    /\ UNCHANGED <<pName, pContent, runVars, manifest, callVars>>

ParseNext == ParseAnInputFile

ParseSpec == ParseInit /\ [][ParseNext]_vars

(***************************************************************************)
(* ManifestSpec: any sequence of calls of update_access_yaml               *)
(***************************************************************************)
Resources == {"cirun-gpu-runner", "cirun-cpu-runner"}

FeedstockRepos == {<<"a">> \o Suffix, <<"b">> \o Suffix, <<"c">> \o Suffix}

Actions == {"add", "remove", "delete"}

EntryLists ==
    UNION {[1..k -> [feedstock : FeedstockRepos]] : k \in 0..MaxListLen}

Manifests == UNION {[D -> EntryLists] : D \in SUBSET Resources}

ManifestInit ==
    /\ manifest \in Manifests
    /\ before = manifest
    /\ call = NoCall
    /\ raised = FALSE
    /\ RunIdle /\ ParseIdle

UpdateAccessYaml(resource, feedstock_name, action) ==
    LET r == update_access_yaml(manifest, resource, feedstock_name, action)
    IN  /\ manifest' = r.file
        /\ raised' = r.raised
        /\ before' = manifest
        /\ call' = [resource |-> resource, feedstock_name |-> feedstock_name,
                    action |-> action]
        /\ UNCHANGED <<runVars, parseVars>>

ManifestNext ==
    \E resource \in Resources, feedstock_name \in FeedstockRepos, action \in Actions :
        UpdateAccessYaml(resource, feedstock_name, action)

ManifestSpec == ManifestInit /\ [][ManifestNext]_vars

(***************************************************************************)
(* Spec: one run of the script, check-only or full                         *)
(***************************************************************************)
Dirs == {"grant_access", "revoke_access"}

\* request files a directory may hold: the two registry names, a name with a
\* doubled extension, and a name the registry does not know
RequestNames ==
    {CirunGpuRunner \o DotTxt,
     CirunGpuRunnerPr \o DotTxt,
     CirunGpuRunner \o DotTxt \o DotTxt,
     <<"a", "z", "u", "r", "e">> \o DotTxt}

\* "a\n", "a\nb" and "a\n\n"
SampleContents ==
    {<<"a", "\n">>, <<"a", "\n", "b">>, <<"a", "\n", "\n">>}

RequestFiles == [name : RequestNames, content : SampleContents]

\* sequences of n request files with distinct names: a directory listing, in
\* the order glob and iterdir give it
Listings(n) ==
    {l \in [1..n -> RequestFiles] : \A i, j \in 1..n : l[i].name = l[j].name => i = j}

Template == [name |-> ExampleTxt, content |-> <<>>]

NoManifest == [r \in {} |-> <<>>]

RunManifests ==
    {NoManifest,
     "cirun-gpu-runner" :> <<[feedstock |-> <<"a">> \o Suffix]>>}

Init ==
    /\ mode \in {"check", "main"}
    /\ pc = "check"
    /\ path = "grant_access"
    /\ \E n \in 0..MaxRequestFiles, k \in 0..MaxRequestFiles :
         /\ k <= n
         /\ \E g \in Listings(k), r \in Listings(n - k) :
              files = [grant_access |-> <<Template>> \o g,
                       revoke_access |-> <<Template>> \o r]
    /\ files0 = files
    /\ manifest \in RunManifests
    /\ manifest0 = manifest
    /\ head = manifest
    /\ dumped = FALSE
    /\ mapping = <<>>
    /\ fi = 0
    /\ ei = 0
    /\ log = <<>>
    /\ failure = "none"
    /\ CallIdle /\ ParseIdle

Registered(i) == mapping[i].key \in DOMAIN CIRUN_FILENAME_RESOURCE_MAPPING

\* an uncaught exception ends the process
Fail(exception) == pc' = "failed" /\ failure' = exception

\* ---- check() -----------------------------------------------------------
\* mapping = _get_filename_feedstock_mapping(path)
CheckLoad ==
    /\ pc = "check"
    /\ mapping' = get_filename_feedstock_mapping(files[path])
    /\ fi' = 1
    /\ ei' = 0
    /\ pc' = "check_loop"
    /\ UNCHANGED <<mode, path, files, files0, manifest, manifest0, head, dumped, log, failure,
                   callVars, parseVars>>

\* where the loops of _check_for_path go after feedstock j of item i
check_after(i, j) ==
    IF j < Len(mapping[i].value) THEN <<i, j + 1>> ELSE <<i + 1, 0>>

\* assert filename in CIRUN_FILENAME_RESOURCE_MAPPING
CheckFilename ==
    /\ pc = "check_loop"
    /\ fi <= Len(mapping)
    /\ ei = 0
    /\ IF Registered(fi)
       THEN /\ fi' = check_after(fi, 0)[1]
            /\ ei' = check_after(fi, 0)[2]
            /\ UNCHANGED <<pc, failure>>
       ELSE /\ Fail("AssertionError")
            /\ UNCHANGED <<fi, ei>>
    /\ UNCHANGED <<mode, path, files, files0, manifest, manifest0, head, dumped, mapping, log,
                   callVars, parseVars>>

\* check_if_repo_exists(feedstock): one GET, ValueError unless it answers 200
CheckRepoExists ==
    /\ pc = "check_loop"
    /\ fi <= Len(mapping)
    /\ ei >= 1
    /\ \E status_code \in {200, 404} :
         /\ log' = Append(log, [op |-> "exists",
                                repo |-> mapping[fi].value[ei] \o Suffix,
                                status_code |-> status_code])
         /\ IF status_code # 200
            THEN /\ Fail("ValueError")
                 /\ UNCHANGED <<fi, ei>>
            ELSE /\ fi' = check_after(fi, ei)[1]
                 /\ ei' = check_after(fi, ei)[2]
                 /\ UNCHANGED <<pc, failure>>
    /\ UNCHANGED <<mode, path, files, files0, manifest, manifest0, head, dumped, mapping,
                   callVars, parseVars>>

\* the end of _check_for_path: the next directory, then the end of check()
CheckDone ==
    /\ pc = "check_loop"
    /\ fi > Len(mapping)
    /\ IF path = "grant_access"
       THEN path' = "revoke_access" /\ pc' = "check"
       ELSE /\ path' = "grant_access"
            /\ pc' = IF mode = "check" THEN "done" ELSE "process"
    /\ UNCHANGED <<mode, files, files0, manifest, manifest0, head, dumped, mapping, fi, ei, log,
                   failure, callVars, parseVars>>

\* ---- process_access_control_requests() ---------------------------------
\* the next (item, feedstock) at or after (i, j) that the loops reach: items
\* whose name is no registry key are passed over
RECURSIVE process_seek(_, _, _)
process_seek(m, i, j) ==
    IF i > Len(m) THEN <<Len(m) + 1, 1>>
    ELSE IF m[i].key \in DOMAIN CIRUN_FILENAME_RESOURCE_MAPPING /\ j <= Len(m[i].value)
    THEN <<i, j>>
    ELSE process_seek(m, i + 1, 1)

ProcessLoad ==
    /\ pc = "process"
    /\ LET m == get_filename_feedstock_mapping(files[path])
       IN  /\ mapping' = m
           /\ fi' = process_seek(m, 1, 1)[1]
           /\ ei' = process_seek(m, 1, 1)[2]
    /\ pc' = "register"
    /\ UNCHANGED <<mode, path, files, files0, manifest, manifest0, head, dumped, log, failure,
                   callVars, parseVars>>

remove_flag == path = "revoke_access"

feedstock_repo == mapping[fi].value[ei] \o Suffix

resource_mapping == CIRUN_FILENAME_RESOURCE_MAPPING[mapping[fi].key]

\* subprocess.run: the exit status is not looked at
register_unchecked(returncode) == "update"

\* subprocess.check_call: CalledProcessError on a non-zero exit
register_checked(returncode) == IF returncode = 0 THEN "update" ELSE "failed"

\* _process_request_for_feedstock: clone (unchecked), then register-ci
Register ==
    /\ pc = "register"
    /\ fi <= Len(mapping)
    /\ \E returncode \in {0, 1} :
         /\ log' = Append(log, [op |-> "register",
                                repo |-> feedstock_repo,
                                resource |-> resource_mapping.resource,
                                policy_args |-> resource_mapping.policy_args,
                                remove |-> remove_flag,
                                returncode |-> returncode])
         /\ pc' = register_checked(returncode)
         /\ failure' = IF pc' = "failed" THEN "CalledProcessError" ELSE failure
    /\ UNCHANGED <<mode, path, files, files0, manifest, manifest0, head, dumped, mapping, fi, ei,
                   callVars, parseVars>>

\* action = "remove" if remove else "add"; update_access_yaml(...)
UpdateManifest ==
    /\ pc = "update"
    /\ LET action == IF remove_flag THEN "remove" ELSE "add"
           r == update_access_yaml(manifest, resource_mapping.resource,
                                   feedstock_repo, action)
       IN  /\ manifest' = r.file
           /\ dumped' = (dumped \/ r.dumped)
           /\ log' = Append(log, [op |-> "update",
                                  resource |-> resource_mapping.resource,
                                  repo |-> feedstock_repo,
                                  action |-> action])
           /\ IF r.raised
              THEN /\ Fail("ValueError")
                   /\ UNCHANGED <<fi, ei>>
              ELSE /\ pc' = "register"
                   /\ fi' = process_seek(mapping, fi, ei + 1)[1]
                   /\ ei' = process_seek(mapping, fi, ei + 1)[2]
                   /\ UNCHANGED failure
    /\ UNCHANGED <<mode, path, files, files0, manifest0, head, mapping,
                   callVars, parseVars>>

\* the end of _process_access_control_requests: grant_access, then
\* revoke_access, then the cleanup of main()
ProcessDone ==
    /\ pc = "register"
    /\ fi > Len(mapping)
    /\ IF path = "grant_access"
       THEN path' = "revoke_access" /\ pc' = "process"
       ELSE path' = "grant_access" /\ pc' = "cleanup"
    /\ UNCHANGED <<mode, files, files0, manifest, manifest0, head, dumped, mapping, fi, ei, log,
                   failure, callVars, parseVars>>

\* ---- _remove_input_files(dir, file_to_keep) ----------------------------
\* file not in files_to_keep, negated: the file stays
kept(f) == f.name = ExampleTxt

unlinked(listing) == SelectSeq(listing, LAMBDA f : ~kept(f))

unlink_events(dir, listing) ==
    [i \in DOMAIN unlinked(listing) |->
        [op |-> "unlink", dir |-> dir, name |-> unlinked(listing)[i].name]]

\* git add . ; git commit -am ...: the commit exits 0 when a file was deleted
\* or the manifest differs from the last commit, and 1 ("nothing to commit")
\* when the working tree is untouched; a manifest written back with the
\* entries it had may or may not differ in its bytes
commit_returncodes(listing) ==
    IF unlinked(listing) # <<>> \/ manifest # head THEN {0}
    ELSE IF dumped THEN {0, 1}
    ELSE {1}

\* unlink every regular file but the template, then git add and git commit
\* (check_call: a non-zero exit raises)
RemoveInputFiles ==
    /\ pc = "cleanup"
    /\ files' = [files EXCEPT ![path] = SelectSeq(@, kept)]
    /\ \E returncode \in commit_returncodes(files[path]) :
         /\ log' = log \o unlink_events(path, files[path])
                       \o <<[op |-> "commit", dir |-> path, returncode |-> returncode]>>
         /\ IF returncode # 0
            THEN /\ Fail("CalledProcessError")
                 /\ UNCHANGED <<path, head, dumped>>
            ELSE /\ UNCHANGED failure
                 /\ head' = manifest
                 /\ dumped' = FALSE
                 /\ IF path = "grant_access"
                    THEN path' = "revoke_access" /\ UNCHANGED pc
                    ELSE pc' = "done" /\ UNCHANGED path
    /\ UNCHANGED <<mode, files0, manifest, manifest0, mapping, fi, ei,
                   callVars, parseVars>>

Next ==
    \/ CheckLoad
    \/ CheckFilename
    \/ CheckRepoExists
    \/ CheckDone
    \/ ProcessLoad
    \/ Register
    \/ UpdateManifest
    \/ ProcessDone
    \/ RemoveInputFiles

Spec == Init /\ [][Next]_vars

(***************************************************************************)
(* Properties of the manifest editor (ManifestSpec)                        *)
(***************************************************************************)
UniqueNames(entries) ==
    \A i, j \in DOMAIN entries :
        entries[i].feedstock = entries[j].feedstock => i = j

AllUnique(m) == \A r \in DOMAIN m : UniqueNames(m[r])

ListOf(m, r) == IF r \in DOMAIN m THEN m[r] ELSE <<>>

Count(entries, e) == Cardinality({i \in DOMAIN entries : entries[i].feedstock = e})

RECURSIVE Without(_, _)
Without(entries, e) ==
    IF entries = <<>> THEN <<>>
    ELSE IF Head(entries).feedstock = e THEN Without(Tail(entries), e)
    ELSE <<Head(entries)>> \o Without(Tail(entries), e)

\* C1: a call of update_access_yaml made on a manifest whose lists all have
\* pairwise-distinct feedstock names leaves a manifest whose lists all have
\* pairwise-distinct feedstock names; so does any sequence of calls.
C1_UniquenessPreserved == [][AllUnique(manifest) => AllUnique(manifest')]_vars

\* an add that changed a manifest of distinct names, next to another entry
C1_Witness ==
    /\ call.action = "add"
    /\ AllUnique(before)
    /\ manifest # before
    /\ Len(manifest[call.resource]) >= 2

C2_FirstAdd ==
    (call.action = "add" /\ Count(ListOf(before, call.resource), call.feedstock_name) = 0)
    => /\ ~raised
       /\ DOMAIN manifest = DOMAIN before \cup {call.resource}
       /\ manifest[call.resource] =
              ListOf(before, call.resource) \o <<[feedstock |-> call.feedstock_name]>>
       /\ Count(manifest[call.resource], call.feedstock_name) = 1
       /\ \A r \in DOMAIN before \ {call.resource} : manifest[r] = before[r]

C2_SecondAdd ==
    (/\ call.action = "add"
     /\ Count(ListOf(before, call.resource), call.feedstock_name) = 0
     /\ call' = call)
    => manifest' = manifest

\* C2: after add(resource, e) on a manifest with no entry for e under
\* resource (the resource key may be absent), the resource's list is the old
\* list with the one entry {feedstock: e} appended; the same add made again
\* leaves the manifest as the first left it.
C2_AddOnceThenIdempotent == [](C2_FirstAdd) /\ [][C2_SecondAdd]_vars

\* an add under a resource key the manifest did not have
C2_Witness ==
    /\ call.action = "add"
    /\ call.resource \notin DOMAIN before
    /\ manifest[call.resource] = <<[feedstock |-> call.feedstock_name]>>

\* C3: after remove(resource, e) the resource's list is the old list without
\* any entry for e, the others in their order; no resource key appears or
\* disappears, no other list changes, and with no entry for e (or no list)
\* the manifest is what it was.
C3_RemoveFilters ==
    call.action = "remove"
    => /\ ~raised
       /\ DOMAIN manifest = DOMAIN before
       /\ \A r \in DOMAIN before :
              manifest[r] = IF r = call.resource
                            THEN Without(before[r], call.feedstock_name)
                            ELSE before[r]
       /\ Count(ListOf(before, call.resource), call.feedstock_name) = 0
              => manifest = before

\* a remove that took two entries for e out and left two others
C3_Witness ==
    /\ call.action = "remove"
    /\ call.resource \in DOMAIN before
    /\ Count(before[call.resource], call.feedstock_name) >= 2
    /\ Len(manifest[call.resource]) >= 2
    /\ manifest[call.resource][1] # manifest[call.resource][2]

\* C4: a call with an action other than "add" and "remove" raises and leaves
\* the manifest on disk as it was, also when the resource key is absent.
C4_InvalidActionLeavesFile ==
    call.action \notin {"add", "remove", "none"} => raised /\ manifest = before

\* an invalid action on a manifest without the resource key
C4_Witness ==
    /\ call.action = "delete"
    /\ call.resource \notin DOMAIN before
    /\ raised

(***************************************************************************)
(* Properties of the parser (ParseSpec)                                    *)
(***************************************************************************)
HasTxtExtension(name) ==
    Len(name) >= 4 /\ SubSeq(name, Len(name) - 3, Len(name)) = DotTxt

\* the file name with the .txt extension removed
Stem(name) ==
    IF HasTxtExtension(name) THEN SubSeq(name, 1, Len(name) - 4) ELSE name

NewlineCount(s) == Cardinality({i \in DOMAIN s : s[i] = "\n"})

LineCount(s) ==
    NewlineCount(s) + (IF s # <<>> /\ s[Len(s)] # "\n" THEN 1 ELSE 0)

Trimmed(s) == s = <<>> \/ (s[1] \notin Whitespace /\ s[Len(s)] \notin Whitespace)

\* C7: the parser gives a file named <name>.txt the request name <name>, and
\* one whitespace-trimmed entry per line of the file, in order.
C7_NameIsStem ==
    pResult.parsed
    => /\ HasTxtExtension(pName) => pResult.file_name = Stem(pName)
       /\ Len(pResult.feedstocks) = LineCount(pContent)
       /\ \A i \in DOMAIN pResult.feedstocks : Trimmed(pResult.feedstocks[i])

(***************************************************************************)
(* Properties of a run (Spec)                                              *)
(***************************************************************************)
Requests(d) == get_access_control_files(files0[d])

Entities(f) == strip_lines(readlines(f.content))

HasKeyName(f) ==
    HasTxtExtension(f.name) /\ Stem(f.name) \in DOMAIN CIRUN_FILENAME_RESOURCE_MAPPING

Invocation(d, f, entity) ==
    [op |-> "register",
     repo |-> entity \o Suffix,
     resource |-> CIRUN_FILENAME_RESOURCE_MAPPING[Stem(f.name)].resource,
     policy_args |-> CIRUN_FILENAME_RESOURCE_MAPPING[Stem(f.name)].policy_args,
     remove |-> (d = "revoke_access"),
     returncode |-> 0]

\* (directory, file, line) of every entity line of a request file whose name
\* is a registry key
ExpectedLines ==
    UNION {UNION {{<<d, i, j>> : j \in DOMAIN Entities(Requests(d)[i])} :
                  i \in {i \in DOMAIN Requests(d) : HasKeyName(Requests(d)[i])}} :
           d \in Dirs}

InvocationOf(t) == Invocation(t[1], Requests(t[1])[t[2]], Entities(Requests(t[1])[t[2]])[t[3]])

Logged(ev) == Cardinality({k \in DOMAIN log : log[k] = ev})

Expected(ev) == Cardinality({t \in ExpectedLines : InvocationOf(t) = ev})

FollowedByUpdate(k) ==
    /\ k < Len(log)
    /\ log[k + 1] = [op |-> "update",
                     resource |-> log[k].resource,
                     repo |-> log[k].repo,
                     action |-> IF log[k].remove THEN "remove" ELSE "add"]

FailedRegistration(k) == log[k].op = "register" /\ log[k].returncode # 0

\* C5: once a full run has processed both directories with every
\* registration succeeding, each entity line of each request file whose name
\* is a registry key has its one registration invocation (repository
\* <entity>-feedstock, the registry's resource and policy qualifiers, the
\* removal flag exactly for revoke_access), and every invocation is followed
\* at once by the manifest update for the same resource and entity.
C5_OneInvocationPerLine ==
    (mode = "main" /\ pc \in {"cleanup", "done"})
    => /\ \A t \in ExpectedLines : Logged(InvocationOf(t)) = Expected(InvocationOf(t))
       /\ \A k \in DOMAIN log : log[k].op = "register" => FollowedByUpdate(k)

Cleaned == \A d \in Dirs : files[d] = <<Template>>

ProcessedEntities(d) ==
    LET m == get_filename_feedstock_mapping(files0[d])
    IN  UNION {{<<d, i, j>> : j \in DOMAIN m[i].value} :
               i \in {i \in DOMAIN m :
                          m[i].key \in DOMAIN CIRUN_FILENAME_RESOURCE_MAPPING}}

AllProcessed ==
    /\ Cardinality({k \in DOMAIN log : log[k].op = "register" /\ log[k].returncode = 0})
         = Cardinality(UNION {ProcessedEntities(d) : d \in Dirs})
    /\ Cardinality({k \in DOMAIN log : log[k].op = "update"})
         = Cardinality(UNION {ProcessedEntities(d) : d \in Dirs})

\* C6: when a full run in which validation passed and every registration
\* and manifest update succeeded has ended, each request directory holds the
\* template and nothing else; and no file is deleted before every entity of
\* both directories has been processed.
C6_CleanupDeletesRequests ==
    /\ (/\ mode = "main"
        /\ pc \in {"done", "failed"}
        /\ failure \notin {"AssertionError", "ValueError"}
        /\ \A k \in DOMAIN log : ~FailedRegistration(k))
       => Cleaned
    /\ files # files0 => AllProcessed

\* C8: no parsed entity list holds the empty name, and no existence check,
\* registration or manifest update is made for the repository "-feedstock".
C8_NoEmptyEntity ==
    /\ \A i \in DOMAIN mapping : \A j \in DOMAIN mapping[i].value :
           mapping[i].value[j] # <<>>
    /\ \A k \in DOMAIN log :
           log[k].op \in {"exists", "register", "update"} => log[k].repo # Suffix

RECURSIVE Replay(_, _)
Replay(m, l) ==
    IF l = <<>> THEN m
    ELSE Replay(IF Head(l).op = "update"
                THEN update_access_yaml(m, Head(l).resource, Head(l).repo,
                                        Head(l).action).file
                ELSE m,
                Tail(l))

\* C9: a registration that exits non-zero is the last thing the run does:
\* the run has stopped, no manifest update follows it, no request file has
\* been deleted, and the manifest holds the updates made for the entities
\* before it (each of them right after its own successful registration).
C9_FailedRegistrationHalts ==
    \A k \in DOMAIN log :
        FailedRegistration(k)
        => /\ k = Len(log)
           /\ pc = "failed"
           /\ files = files0
           /\ manifest = Replay(manifest0, log)
           /\ \A i \in 1..k :
                  /\ log[i].op \notin {"unlink", "commit"}
                  /\ log[i].op = "update"
                         => /\ i > 1
                            /\ log[i - 1].op = "register"
                            /\ log[i - 1].returncode = 0
                            /\ log[i - 1].repo = log[i].repo

\* a registration fails in revoke_access after an update for grant_access
\* changed the manifest
C9_Witness ==
    /\ log # <<>>
    /\ FailedRegistration(Len(log))
    /\ log[Len(log)].remove
    /\ manifest # manifest0

AllKnown ==
    \A d \in Dirs : \A i \in DOMAIN Requests(d) : HasKeyName(Requests(d)[i])

AllExist ==
    \A d \in Dirs : \A i \in DOMAIN Requests(d) :
        \A j \in DOMAIN Entities(Requests(d)[i]) :
            \E k \in DOMAIN log :
                log[k] = [op |-> "exists",
                          repo |-> Entities(Requests(d)[i])[j] \o Suffix,
                          status_code |-> 200]

Acted ==
    \/ \E k \in DOMAIN log : log[k].op \in {"register", "update", "unlink", "commit"}
    \/ manifest # manifest0
    \/ files # files0

\* C10: nothing is registered, written or deleted unless every request file
\* has a registry key as its name and every entity of them passed the
\* existence check; a request file whose name is no registry key keeps
\* validation from passing; a check-only run registers, writes and deletes
\* nothing.
C10_ValidationFirst ==
    /\ Acted => AllKnown /\ AllExist
    /\ ~AllKnown => /\ pc \in {"check", "check_loop", "failed"}
                    /\ pc = "failed" => failure \in {"AssertionError", "ValueError"}
    /\ mode = "check" => ~Acted

====
